---- MODULE Spec2Model ----
(***************************************************************************)
(* PiranhaGPTChat (experimental/rule_inference/piranha_chat.py): the       *)
(* conversation with the completion provider, the construction of its      *)
(* first message and the retry loop of get_completion.                     *)
(*                                                                         *)
(* Strings are sequences of tokens (a token is a piece of text), so that   *)
(* concatenation, substitution and prefix tests are computed.              *)
(* Temperatures are in tenths (0.3 is 3).                                  *)
(***************************************************************************)
EXTENDS Integers, Sequences, FiniteSets, TLC

VARIABLES
    constructed,   \* "ok", or the exception the constructor raised
    filesystem,    \* what os.walk finds under the examples directory
    messagesArg,   \* the messages argument given to the constructor
    examples,      \* the text _get_examples returned (<< >>: it did not run)
    holes,         \* attr.ib holes
    messages,      \* attr.ib messages: the conversation
    temperature,   \* attr.ib temperature, in tenths
    model,         \* attr.ib model
    entry,         \* the method the caller invoked last ("none" before any)
    pc,            \* position of the running or latest invocation
    n_samples,     \* argument of the running get_completion (0: not running)
    e,             \* exception raised by the latest provider request ("none")
    returned,      \* <<v>> when the latest invocation returned v, else << >>
    prevReturned,  \* <<v>> in an invocation of get_model_response entered
                   \* right after get_model_response returned v, else << >>
    lastRequest,   \* << >> or <<r>>: latest request of the invocation
    lastResponse,  \* << >> or <<choices>>: what the provider answered to it
    lastSleep,     \* duration of the latest time.sleep of the invocation (0: none)
    requests,      \* provider requests issued by the current invocation
    sleeps,        \* time.sleep calls made by the current invocation
    failures,      \* transient errors caught by the current invocation
    msgsAtStart,   \* the conversation when the current invocation started
    lastOp,        \* latest operation the caller completed or started
    lastArg        \* its argument (<< >> when it takes none)

vars == <<constructed, filesystem, messagesArg, examples, holes, messages,
          temperature, model, entry, pc, n_samples, e, returned, prevReturned,
          lastRequest, lastResponse, lastSleep, requests, sleeps, failures, msgsAtStart,
          lastOp, lastArg>>

\* fixed by the constructor
config == <<constructed, filesystem, messagesArg, examples, holes, temperature,
            model>>
\* fixed when an invocation is entered
frame == <<entry, prevReturned>>
observers == <<requests, sleeps, failures, msgsAtStart>>

----------------------------------------------------------------------------
(* Bounds *)

\* the conversation holds at most MaxMsgs messages
MaxMsgs == 4
\* the counters requests, sleeps and failures count exactly up to MaxCount
\* (requests up to MaxCount + 1); one more stands for "more than that"
MaxCount == 2
\* get_completion is asked for at most MaxSamples samples
MaxSamples == 2

----------------------------------------------------------------------------
(* Strings *)

Last(s) == s[Len(s)]

IsPrefix(s, t) == Len(s) <= Len(t) /\ SubSeq(t, 1, Len(s)) = s

\* str.endswith
EndsWith(s, suffix) ==
    /\ Len(suffix) <= Len(s)
    /\ SubSeq(s, Len(s) - Len(suffix) + 1, Len(s)) = suffix

\* str.startswith
StartsWith(s, prefix) == IsPrefix(prefix, s)

\* sep.join(list)
RECURSIVE Join(_, _)
Join(sep, list) ==
    IF list = << >> THEN << >>
    ELSE IF Len(list) = 1 THEN list[1]
    ELSE list[1] \o sep \o Join(sep, Tail(list))

----------------------------------------------------------------------------
(* Class attributes *)

\* the static explanation text
explanation == <<"explanation">>

Lit(text) == [lit |-> text, hole |-> ""]
Hole(name) == [lit |-> "", hole |-> name]

\* variant: the template has no {hints} field
input_template_fewer ==
    << Lit("=== Task === === Source code ==="), Hole("source_code"),
       Lit("=== Tree-sitter representation (source code) ==="), Hole("source_tree"),
       Lit("=== Tree-sitter representation (target code) ==="), Hole("target_tree"),
       Lit("=== Diff ==="), Hole("diff"),
       Lit("=== Additional requirements ==="),
       Lit("=== Please improve my rule ===") >>

\* the task template: literal text and {name} replacement fields
input_template ==
    << Lit("=== Task === === Source code ==="), Hole("source_code"),
       Lit("=== Tree-sitter representation (source code) ==="), Hole("source_tree"),
       Lit("=== Tree-sitter representation (target code) ==="), Hole("target_tree"),
       Lit("=== Diff ==="), Hole("diff"),
       Lit("=== Additional requirements ==="), Hole("hints"),
       Lit("=== Please improve my rule ===") >>

\* validators of temperature: ge(0), le(1), in tenths
TemperatureMin == 0
TemperatureMax == 10
\* variant: validators gt(0), lt(1)
TemperatureValid_open(t) == t > TemperatureMin /\ t < TemperatureMax

TemperatureValid(t) == t >= TemperatureMin /\ t <= TemperatureMax

\* validator of model: in_([...])
SupportedModels == {"gpt-4", "gpt-4-32k", "gpt-3.5-turbo-16k"}
ModelValid(m) == m \in SupportedModels

----------------------------------------------------------------------------
(* input_template.format applied to the holes *)

\* a replacement field whose name is no key of h raises KeyError
FormatRaises(template, h) ==
    \E i \in 1..Len(template) :
        template[i].hole # "" /\ template[i].hole \notin DOMAIN h

\* variant: the template is used as it is, its fields not replaced
Format_unfilled(template, h) ==
    [i \in 1..Len(template) |->
        IF template[i].hole = "" THEN template[i].lit ELSE template[i].hole]

RECURSIVE Format(_, _)
Format(template, h) ==
    IF template = << >> THEN << >>
    ELSE LET seg == Head(template)
         IN  (IF seg.hole = "" THEN <<seg.lit>> ELSE h[seg.hole])
             \o Format(Tail(template), h)

----------------------------------------------------------------------------
(* _get_examples: walked is the result of os.walk, a sequence of           *)
(* [root, files], files a sequence of [name, lines]                        *)

\* variant: line.strip().startswith("#")
IsComment_stripped(line) ==
    \E i \in 1..Len(line) :
        /\ line[i] = "#"
        /\ \A j \in 1..(i - 1) : line[j] = " "

IsComment(line) == StartsWith(line, <<"#">>)

\* [line for line in lines if not line.startswith("#")]
RECURSIVE NonCommentLines(_)
NonCommentLines(lines) ==
    IF lines = << >> THEN << >>
    ELSE (IF IsComment(Head(lines)) THEN << >> ELSE <<Head(lines)>>)
         \o NonCommentLines(Tail(lines))

RulesSuffix == <<"rules.toml">>

FileBlock(root, file) ==
    LET file_name == root \o <<"/">> \o file.name
        file_contents == Join(<<"\n">>, NonCommentLines(file.lines))
    IN  <<"<file_name_start> ">> \o file_name \o <<" <file_name_end>\n">>
        \o <<"<fence>toml ">> \o file_contents \o <<"<fence>\n">>

RECURSIVE FilesBlocks(_, _)
FilesBlocks(root, files) ==
    IF files = << >> THEN << >>
    ELSE (IF EndsWith(Head(files).name, RulesSuffix)
          THEN FileBlock(root, Head(files)) ELSE << >>)
         \o FilesBlocks(root, Tail(files))

RECURSIVE get_examples(_)
get_examples(walked) ==
    IF walked = << >> THEN << >>
    ELSE FilesBlocks(Head(walked).root, Head(walked).files)
         \o get_examples(Tail(walked))

----------------------------------------------------------------------------
(* Inputs of the constructor *)

TemplateKeys == {"source_code", "source_tree", "target_tree", "diff", "hints"}

HoleValue(k) == <<"value of", k>>

AllHoles == [k \in TemplateKeys |-> HoleValue(k)]

HolesInputs ==
    {AllHoles, [k \in TemplateKeys \cup {"unused"} |-> HoleValue(k)]}
    \cup {[k \in TemplateKeys \ {missing} |-> HoleValue(k)] : missing \in TemplateKeys}

TemperatureInputs == {-1, 0, 3, 10, 11}

ModelInputs == {"gpt-4", "gpt-3.5-turbo-16k", "text-davinci-003"}

Message(role, content) == [role |-> role, content |-> content]

\* the messages argument: the default empty list, or a list of the caller
MessagesInputs == {<< >>, <<Message("assistant", <<"earlier reply">>)>>}

RulesFile ==
    [name |-> <<"rules.toml">>,
     lines |-> << <<"#", " comment">>, <<"[[rules]]">>, <<" ", "#", " kept">> >>]
NotesFile == [name |-> <<"notes.txt">>, lines |-> << <<"note">> >>]
EdgesFile ==
    [name |-> <<"edges_", "rules.toml">>, lines |-> << <<"[[edges]]">>, <<"#">> >>]
BackupFile == [name |-> <<"rules.toml", ".bak">>, lines |-> << <<"old">> >>]

JavaTree ==
    << [root |-> <<"java">>, files |-> << >>],
       [root |-> <<"java", "/", "a">>, files |-> <<RulesFile, EdgesFile>>],
       [root |-> <<"java", "/", "b">>, files |-> <<NotesFile, BackupFile>>] >>

FlatTree == << [root |-> <<"java">>, files |-> <<NotesFile, RulesFile>>] >>

WalkInputs == {<< >>, JavaTree, FlatTree}

----------------------------------------------------------------------------
(* Construction: the attrs __init__ (validators) and __attrs_post_init__   *)

\* the first message's content
Formatted(walked, h) ==
    explanation \o <<"\n">> \o get_examples(walked) \o <<"\n">>
    \o Format(input_template, h)

\* the outcome of PiranhaGPTChat(holes, messages, temperature, model)
ConstructionOutcome(h, t, m) ==
    IF ~TemperatureValid(t) \/ ~ModelValid(m) THEN "ValueError"
    ELSE IF FormatRaises(input_template, h) THEN "KeyError"
    ELSE "ok"

\* variant: the first message is built and not appended
attrs_post_init_dropped(msgs, walked, h) == msgs

\* variant: self.messages.insert(0, ...)
attrs_post_init_front(msgs, walked, h) ==
    <<Message("user", Formatted(walked, h))>> \o msgs

attrs_post_init(msgs, walked, h) ==
    Append(msgs, Message("user", Formatted(walked, h)))

Construct(h, msgs, t, m, walked) ==
    /\ constructed = ConstructionOutcome(h, t, m)
    /\ filesystem = walked
    /\ messagesArg = msgs
    /\ examples = IF ConstructionOutcome(h, t, m) = "ValueError"
                  THEN << >> ELSE get_examples(walked)
    /\ holes = h
    /\ temperature = t
    /\ model = m
    /\ messages = IF ConstructionOutcome(h, t, m) = "ok"
                  THEN attrs_post_init(msgs, walked, h)
                  ELSE msgs
    /\ entry = "none"
    /\ pc = "IDLE"
    /\ n_samples = 0
    /\ e = "none"
    /\ returned = << >>
    /\ prevReturned = << >>
    /\ lastRequest = << >>
    /\ lastResponse = << >>
    /\ lastSleep = 0
    /\ requests = 0
    /\ sleeps = 0
    /\ failures = 0
    /\ msgsAtStart = << >>
    /\ lastOp = "construct"
    /\ lastArg = << >>

\* the arguments the constructor is given: the default arguments, and these
\* with one argument replaced by every input for it; other arguments, and
\* these with one argument replaced by every input the constructor rejects
DefaultArguments ==
    [holes |-> AllHoles, messages |-> << >>, temperature |-> 3,
     model |-> "gpt-4", walked |-> << >>]

OtherArguments ==
    [holes |-> [k \in TemplateKeys \cup {"unused"} |-> HoleValue(k)],
     messages |-> <<Message("assistant", <<"earlier reply">>)>>,
     temperature |-> 10, model |-> "gpt-3.5-turbo-16k",
     walked |-> JavaTree]

OneReplaced(args) ==
    {[args EXCEPT !.holes = h] : h \in HolesInputs}
    \cup {[args EXCEPT !.messages = msgs] : msgs \in MessagesInputs}
    \cup {[args EXCEPT !.temperature = t] : t \in TemperatureInputs}
    \cup {[args EXCEPT !.model = m] : m \in ModelInputs}
    \cup {[args EXCEPT !.walked = w] : w \in WalkInputs}

OneRejected(args) ==
    {[args EXCEPT !.holes = h] :
        h \in {g \in HolesInputs : TemplateKeys \ DOMAIN g # {}}}
    \cup {[args EXCEPT !.temperature = t] :
             t \in {u \in TemperatureInputs : ~TemperatureValid(u)}}
    \cup {[args EXCEPT !.model = m] : m \in {k \in ModelInputs : ~ModelValid(k)}}

ConstructorInputs ==
    OneReplaced(DefaultArguments) \cup {OtherArguments}
    \cup OneRejected(OtherArguments)

Init ==
    \E args \in ConstructorInputs :
        Construct(args.holes, args.messages, args.temperature, args.model,
                  args.walked)

----------------------------------------------------------------------------
(* Inputs of the operations and outcomes of the provider *)

\* arguments of append_system_message
SystemMessages == {<<"manual reply">>}

\* arguments of append_user_followup
FollowupMessages == {<<"followup">>}

\* message contents the provider may answer with
Samples == {<<"reply A">>, <<"reply B">>}

\* the n_samples argument of get_completion
SampleCounts == 1..MaxSamples

\* response.choices for a request of n samples: n contents, in provider order
Choices(n) == [1..n -> Samples]

\* openai.error classes a request may raise
ProviderErrors ==
    {"RateLimitError", "Timeout", "APIError",
     "InvalidRequestError", "AuthenticationError"}

\* variant: except Exception
Caught_any(err) == TRUE

\* except (openai.error.RateLimitError, openai.error.Timeout, openai.error.APIError)
Caught(err) == err \in {"RateLimitError", "Timeout", "APIError"}

\* sleep_time = 10
sleep_time == 10

\* the counters stop at one more than the largest count they track
Count(c, largest) == IF c <= largest THEN c + 1 ELSE c

----------------------------------------------------------------------------
(* The operations *)

\* the caller holds a constructed object and no invocation is running
CallerRuns == constructed = "ok" /\ pc \in {"IDLE", "DONE", "ERROR"}

append_system_message(system_message) ==
    /\ CallerRuns
    /\ Len(messages) < MaxMsgs
    /\ messages' = Append(messages, Message("assistant", system_message))
    /\ lastOp' = "append_system_message"
    /\ lastArg' = <<system_message>>
    /\ UNCHANGED <<config, frame, pc, n_samples, e, returned, lastRequest,
                   lastSleep, observers>>
    /\ UNCHANGED lastResponse

\* variant: self.messages.insert(0, ...)
append_user_followup_front(followup_message) ==
    /\ CallerRuns
    /\ Len(messages) < MaxMsgs - 1
    /\ messages' = <<Message("user", followup_message)>> \o messages
    /\ lastOp' = "append_user_followup"
    /\ lastArg' = <<followup_message>>
    /\ UNCHANGED <<config, frame, pc, n_samples, e, returned, lastRequest,
                   lastSleep, observers>>
    /\ UNCHANGED lastResponse

\* a followup leaves room for the reply to it
append_user_followup(followup_message) ==
    /\ CallerRuns
    /\ Len(messages) < MaxMsgs - 1
    /\ messages' = Append(messages, Message("user", followup_message))
    /\ lastOp' = "append_user_followup"
    /\ lastArg' = <<followup_message>>
    /\ UNCHANGED <<config, frame, pc, n_samples, e, returned, lastRequest,
                   lastSleep, observers>>
    /\ UNCHANGED lastResponse

\* get_model_response is entered: a fresh frame, nothing kept from earlier
\* invocations but the object's fields
get_model_response_enter ==
    /\ CallerRuns
    /\ pc' = "CHECK_CACHE"
    /\ n_samples' = 0
    /\ e' = "none"
    /\ returned' = << >>
    /\ lastRequest' = << >>
    /\ lastResponse' = << >>
    /\ requests' = 0
    /\ sleeps' = 0
    /\ failures' = 0
    /\ msgsAtStart' = messages
    /\ lastSleep' = 0
    /\ entry' = "get_model_response"
    /\ prevReturned' = IF pc = "DONE" /\ lastOp = "get_model_response"
                       THEN returned ELSE << >>
    /\ UNCHANGED <<config, messages, lastOp, lastArg>>

\* the caller invokes get_completion itself, for n samples
get_completion_enter(n) ==
    /\ CallerRuns
    /\ pc' = "REQUEST"
    /\ n_samples' = n
    /\ e' = "none"
    /\ returned' = << >>
    /\ lastRequest' = << >>
    /\ lastResponse' = << >>
    /\ requests' = 0
    /\ sleeps' = 0
    /\ failures' = 0
    /\ msgsAtStart' = messages
    /\ lastSleep' = 0
    /\ entry' = "get_completion"
    /\ prevReturned' = << >>
    /\ UNCHANGED <<config, messages, lastOp, lastArg>>

\* variant: latest_message = self.messages[0]
get_model_response_check_first ==
    /\ pc = "CHECK_CACHE"
    /\ LET latest_message == Head(messages)
       IN  IF latest_message.role = "assistant"
           THEN /\ pc' = "DONE"
                /\ returned' = <<latest_message.content>>
                /\ lastOp' = "get_model_response"
                /\ lastArg' = << >>
                /\ UNCHANGED n_samples
           ELSE /\ pc' = "REQUEST"
                /\ n_samples' = 1
                /\ UNCHANGED <<returned, lastOp, lastArg>>
    /\ UNCHANGED <<config, frame, messages, e, lastRequest, lastSleep, observers>>
    /\ UNCHANGED lastResponse

\* variant: the latest assistant message is the answer whenever there is one
get_model_response_check_any ==
    /\ pc = "CHECK_CACHE"
    /\ LET replies == {i \in 1..Len(messages) : messages[i].role = "assistant"}
       IN  IF replies # {}
           THEN /\ pc' = "DONE"
                /\ returned' =
                     <<messages[CHOOSE i \in replies :
                                   \A j \in replies : j <= i].content>>
                /\ lastOp' = "get_model_response"
                /\ lastArg' = << >>
                /\ UNCHANGED n_samples
           ELSE /\ pc' = "REQUEST"
                /\ n_samples' = 1
                /\ UNCHANGED <<returned, lastOp, lastArg>>
    /\ UNCHANGED <<config, frame, messages, e, lastRequest, lastSleep, observers>>
    /\ UNCHANGED lastResponse

\* variant: no look at the latest message, the provider is always asked
get_model_response_check_nocache ==
    /\ pc = "CHECK_CACHE"
    /\ pc' = "REQUEST"
    /\ n_samples' = 1
    /\ UNCHANGED <<returned, lastOp, lastArg>>
    /\ UNCHANGED <<config, frame, messages, e, lastRequest, lastSleep, observers>>
    /\ UNCHANGED lastResponse

\* latest_message = self.messages[-1]; the branch on its role
get_model_response_check ==
    /\ pc = "CHECK_CACHE"
    /\ LET latest_message == Last(messages)
       IN  IF latest_message.role = "assistant"
           THEN /\ pc' = "DONE"
                /\ returned' = <<latest_message.content>>
                /\ lastOp' = "get_model_response"
                /\ lastArg' = << >>
                /\ UNCHANGED n_samples
           ELSE /\ pc' = "REQUEST"
                /\ n_samples' = 1
                /\ UNCHANGED <<returned, lastOp, lastArg>>
    /\ UNCHANGED <<config, frame, messages, e, lastRequest, lastSleep, observers>>
    /\ UNCHANGED lastResponse

\* variant: messages=self.messages[-1:]
CompletionRequest_latest ==
    [model |-> model, messages |-> <<Last(messages)>>,
     temperature |-> temperature, n |-> n_samples]

\* the arguments of openai.ChatCompletion.create
CompletionRequest ==
    [model |-> model, messages |-> messages, temperature |-> temperature,
     n |-> n_samples]

\* the request is handed to the provider
IssueRequest ==
    /\ lastRequest' = <<CompletionRequest>>
    /\ requests' = Count(requests, MaxCount + 1)

\* variant: get_model_response returns the sample and does not append it
get_completion_success_unrecorded(choices) ==
    /\ pc = "REQUEST"
    /\ IssueRequest
    /\ lastResponse' = <<choices>>
    /\ LET completions == [i \in 1..Len(choices) |-> choices[i]]
           content == completions[1]
       IN  returned' = <<content>>
    /\ e' = "none"
    /\ pc' = "DONE"
    /\ n_samples' = 0
    /\ lastOp' = entry
    /\ lastArg' = << >>
    /\ UNCHANGED <<config, frame, messages, lastSleep, sleeps, failures, msgsAtStart>>

\* variant: the contents are collected from the last choice to the first
get_completion_success_reversed(choices) ==
    /\ pc = "REQUEST"
    /\ IssueRequest
    /\ lastResponse' = <<choices>>
    /\ LET completions ==
               [i \in 1..Len(choices) |-> choices[Len(choices) + 1 - i]]
           content == completions[1]
       IN  IF entry = "get_model_response"
           THEN /\ messages' = Append(messages, Message("assistant", content))
                /\ returned' = <<content>>
           ELSE /\ messages' = messages
                /\ returned' = <<completions>>
    /\ e' = "none"
    /\ pc' = "DONE"
    /\ n_samples' = 0
    /\ lastOp' = entry
    /\ lastArg' = << >>
    /\ UNCHANGED <<config, frame, lastSleep, sleeps, failures, msgsAtStart>>

\* the provider answers: get_completion returns the contents of the choices;
\* get_model_response, when it made the call, appends the first and returns it
get_completion_success(choices) ==
    /\ pc = "REQUEST"
    /\ IssueRequest
    /\ lastResponse' = <<choices>>
    /\ LET completions == [i \in 1..Len(choices) |-> choices[i]]
           content == completions[1]
       IN  IF entry = "get_model_response"
           THEN /\ messages' = Append(messages, Message("assistant", content))
                /\ returned' = <<content>>
           ELSE /\ messages' = messages
                /\ returned' = <<completions>>
    /\ e' = "none"
    /\ pc' = "DONE"
    /\ n_samples' = 0
    /\ lastOp' = entry
    /\ lastArg' = << >>
    /\ UNCHANGED <<config, frame, lastSleep, sleeps, failures, msgsAtStart>>

\* variant: the except clause retries at once, without time.sleep
get_completion_transient_nosleep(err) ==
    /\ pc = "REQUEST"
    /\ Caught(err)
    /\ IssueRequest
    /\ lastResponse' = << >>
    /\ e' = err
    /\ failures' = Count(failures, MaxCount)
    /\ pc' = "REQUEST"
    /\ UNCHANGED <<config, frame, messages, n_samples, returned, lastSleep, sleeps,
                   msgsAtStart, lastOp, lastArg>>

\* variant: the except clause re-raises from the second error on
get_completion_transient_twice(err) ==
    /\ pc = "REQUEST"
    /\ Caught(err)
    /\ IssueRequest
    /\ lastResponse' = << >>
    /\ e' = err
    /\ failures' = Count(failures, MaxCount)
    /\ IF failures >= 1
       THEN /\ pc' = "ERROR"
            /\ n_samples' = 0
            /\ lastOp' = entry
            /\ lastArg' = << >>
       ELSE /\ pc' = "WAIT"
            /\ UNCHANGED <<n_samples, lastOp, lastArg>>
    /\ UNCHANGED <<config, frame, messages, returned, lastSleep, sleeps, msgsAtStart>>

\* variant: the except clause lowers the temperature for the next attempt
get_completion_transient_cooler(err) ==
    /\ pc = "REQUEST"
    /\ Caught(err)
    /\ IssueRequest
    /\ lastResponse' = << >>
    /\ e' = err
    /\ failures' = Count(failures, MaxCount)
    /\ pc' = "WAIT"
    /\ temperature' = 0
    /\ UNCHANGED <<constructed, filesystem, messagesArg, examples, holes, model>>
    /\ UNCHANGED <<frame, messages, n_samples, returned, lastSleep, sleeps,
                   msgsAtStart, lastOp, lastArg>>

\* variant: the except clause records the error in the conversation
get_completion_transient_logged(err) ==
    /\ pc = "REQUEST"
    /\ Caught(err)
    /\ IssueRequest
    /\ lastResponse' = << >>
    /\ e' = err
    /\ failures' = Count(failures, MaxCount)
    /\ pc' = "WAIT"
    /\ messages' = Append(messages, Message("assistant", <<err>>))
    /\ UNCHANGED <<config, frame, n_samples, returned, lastSleep, sleeps,
                   msgsAtStart, lastOp, lastArg>>

\* the request raises an error of the except clause
get_completion_transient(err) ==
    /\ pc = "REQUEST"
    /\ Caught(err)
    /\ IssueRequest
    /\ lastResponse' = << >>
    /\ e' = err
    /\ failures' = Count(failures, MaxCount)
    /\ pc' = "WAIT"
    /\ UNCHANGED <<config, frame, messages, n_samples, returned, lastSleep, sleeps,
                   msgsAtStart, lastOp, lastArg>>

\* variant: no while True; after the sleep get_completion returns None and
\* completions[0] raises in get_model_response
get_completion_sleep_once ==
    /\ pc = "WAIT"
    /\ lastSleep' = sleep_time
    /\ sleeps' = Count(sleeps, MaxCount)
    /\ pc' = "ERROR"
    /\ n_samples' = 0
    /\ lastOp' = entry
    /\ lastArg' = << >>
    /\ UNCHANGED <<config, frame, messages, e, returned, lastRequest,
                   requests, failures, msgsAtStart>>
    /\ UNCHANGED lastResponse

\* variant: sleep_time grows with the errors caught so far
get_completion_sleep_backoff ==
    /\ pc = "WAIT"
    /\ lastSleep' = sleep_time * failures
    /\ sleeps' = Count(sleeps, MaxCount)
    /\ pc' = "REQUEST"
    /\ UNCHANGED <<config, frame, messages, n_samples, e, returned, lastRequest,
                   requests, failures, msgsAtStart, lastOp, lastArg>>
    /\ UNCHANGED lastResponse

\* time.sleep(sleep_time) in the except clause; the loop goes round
get_completion_sleep ==
    /\ pc = "WAIT"
    /\ lastSleep' = sleep_time
    /\ sleeps' = Count(sleeps, MaxCount)
    /\ pc' = "REQUEST"
    /\ UNCHANGED <<config, frame, messages, n_samples, e, returned, lastRequest,
                   requests, failures, msgsAtStart, lastOp, lastArg>>
    /\ UNCHANGED lastResponse

\* the request raises any other error: it leaves get_completion and
\* get_model_response
get_completion_fatal(err) ==
    /\ pc = "REQUEST"
    /\ ~Caught(err)
    /\ IssueRequest
    /\ lastResponse' = << >>
    /\ e' = err
    /\ pc' = "ERROR"
    /\ n_samples' = 0
    /\ lastOp' = entry
    /\ lastArg' = << >>
    /\ UNCHANGED <<config, frame, messages, returned, lastSleep, sleeps, failures,
                   msgsAtStart>>

Next ==
    \/ \E system_message \in SystemMessages :
           append_system_message(system_message)
    \/ \E followup_message \in FollowupMessages :
           append_user_followup(followup_message)
    \/ get_model_response_enter
    \/ get_model_response_check
    \/ \E n \in SampleCounts : get_completion_enter(n)
    \/ \E choices \in Choices(n_samples) : get_completion_success(choices)
    \/ \E err \in ProviderErrors : get_completion_transient(err)
    \/ get_completion_sleep
    \/ \E err \in ProviderErrors : get_completion_fatal(err)

Spec == Init /\ [][Next]_vars

\* the steps of the program are taken, and a provider that is asked again and
\* again eventually answers
LiveSpec ==
    /\ Spec
    /\ WF_vars(get_model_response_check)
    /\ WF_vars(get_completion_sleep)
    /\ SF_vars(\E choices \in Choices(n_samples) : get_completion_success(choices))

----------------------------------------------------------------------------
(* Properties *)

\* the transient failure categories: rate limit, timeout, generic provider error
TransientErrors == {"RateLimitError", "Timeout", "APIError"}
NonTransientErrors == ProviderErrors \ TransientErrors

\* the running or latest invocation is one of get_model_response
ViaResponse == entry = "get_model_response"

\* get_model_response has returned and the caller has done nothing since
Returned == pc = "DONE" /\ lastOp = "get_model_response"

\* the invocation that is running or was the latest found a cached answer
CacheHit == msgsAtStart # << >> /\ Last(msgsAtStart).role = "assistant"

\* C1: an invocation that finds an assistant message last returns its content,
\* issues no request, does not sleep and leaves the conversation as it was;
\* after append_system_message(c) it returns c.
C1_CacheHitReturnsLast ==
    /\ [](Returned /\ CacheHit =>
            /\ returned = <<Last(msgsAtStart).content>>
            /\ requests = 0
            /\ lastRequest = << >>
            /\ sleeps = 0
            /\ lastSleep = 0
            /\ messages = msgsAtStart)
    /\ [][pc = "CHECK_CACHE" /\ lastOp = "append_system_message" =>
            /\ pc' = "DONE"
            /\ returned' = lastArg
            /\ UNCHANGED <<messages, requests, lastRequest, sleeps>>]_vars

C1_Witness ==
    /\ Returned /\ CacheHit
    /\ returned = << <<"manual reply">> >>
    /\ Len(messages) = 3

\* C2: an invocation that issues requests and meets N transient errors before
\* the success (N counted exactly up to MaxCount) has slept N times, issued
\* N + 1 requests, and the conversation is the one it started with plus one
\* assistant message holding the returned sample.
C2_RetriesThenSuccess ==
    Returned /\ ~CacheHit /\ failures <= MaxCount =>
        /\ sleeps = failures
        /\ requests = failures + 1
        /\ Len(returned) = 1
        /\ messages = Append(msgsAtStart, Message("assistant", returned[1]))

C2_Witness ==
    /\ Returned /\ ~CacheHit
    /\ failures = MaxCount /\ sleeps = MaxCount /\ requests = MaxCount + 1

\* C3: a request that raises a non-transient error ends the invocation in
\* ERROR with that error; the conversation is the one the attempt (and the
\* invocation) started with, no sleep is made for it, nothing is returned, and
\* no request follows until the caller invokes again.
C3_FatalErrorPropagates ==
    /\ [][ViaResponse /\ pc = "REQUEST" /\ e' \in NonTransientErrors =>
            /\ pc' = "ERROR"
            /\ lastOp' = "get_model_response"
            /\ returned' = << >>
            /\ messages' = messages
            /\ messages' = msgsAtStart
            /\ sleeps' = sleeps
            /\ lastSleep' = lastSleep]_vars
    /\ [][pc = "ERROR" /\ pc' # pc => requests' = 0 /\ lastRequest' = << >>]_vars

C3_Witness ==
    /\ pc = "ERROR" /\ e = "AuthenticationError"
    /\ failures = 1 /\ sleeps = 1 /\ requests = 2
    /\ messages = msgsAtStart

\* C4: an invocation right after append_user_followup goes to the provider,
\* whatever precedes the followup, and when its first attempt succeeds it has
\* issued exactly one request.
C4_FollowupTriggersOneRequest ==
    /\ [][pc = "CHECK_CACHE" /\ lastOp = "append_user_followup" =>
            pc' = "REQUEST"]_vars
    /\ [][pc = "REQUEST" /\ lastOp = "append_user_followup" /\ failures = 0
          /\ pc' = "DONE" =>
            requests' = 1 /\ sleeps' = 0]_vars

C4_Witness ==
    /\ Returned /\ requests = 1 /\ failures = 0
    /\ Len(msgsAtStart) >= 2
    /\ Last(msgsAtStart) = Message("user", <<"followup">>)
    /\ msgsAtStart[Len(msgsAtStart) - 1].role = "assistant"

\* C5: every step leaves the conversation it found as a prefix of the
\* conversation it leaves.
C5_AppendOnly == [][IsPrefix(messages, messages')]_vars

C5_Witness ==
    /\ Len(messages) = MaxMsgs
    /\ \E i \in 1..Len(messages) : messages[i] = Message("user", <<"followup">>)
    /\ \E i \in 1..Len(messages) : messages[i].content \in Samples
    /\ failures > 0

\* C6: a constructed object's conversation is never empty, and at CHECK_CACHE
\* the last role decides: user goes to the provider, assistant does not.
C6_NeverEmptyLastRoleDecides ==
    /\ [](constructed = "ok" =>
            /\ messages # << >>
            /\ Last(messages).role \in {"user", "assistant"})
    /\ [](ViaResponse /\ requests > 0 => Last(msgsAtStart).role = "user")
    /\ [][pc = "CHECK_CACHE" =>
            /\ Last(messages).role = "user" => pc' = "REQUEST"
            /\ Last(messages).role = "assistant" =>
                   pc' = "DONE" /\ requests' = 0]_vars

C6_Witness ==
    /\ constructed = "ok" /\ Len(messages) = 1
    /\ pc = "REQUEST" /\ requests = 0

\* C7: an invocation is in ERROR only with a non-transient error; a transient
\* error leads to WAIT however many came before; DONE comes with a sample.
C7_TransientNeverSurfaced ==
    /\ [](pc = "ERROR" => e \in NonTransientErrors)
    /\ [](pc = "DONE" => Len(returned) = 1)
    /\ [][pc = "REQUEST" /\ e' \in TransientErrors /\ pc' # pc =>
            pc' = "WAIT"]_vars
    /\ [][pc = "WAIT" => pc' \in {"WAIT", "REQUEST"}]_vars

C7_Witness ==
    /\ pc = "WAIT" /\ failures = MaxCount + 1 /\ sleeps = MaxCount + 1

\* C8: with a provider that eventually answers, a running invocation
\* eventually returns a string or ends with a non-transient error; and the
\* retry loop is left by nothing but a success or a non-transient error.
Running == pc \in {"CHECK_CACHE", "REQUEST", "WAIT"}

C8_EventuallyReturns ==
    /\ Running ~> \/ pc = "DONE" /\ Len(returned) = 1
                  \/ pc = "ERROR" /\ e \in NonTransientErrors
    /\ [][(pc \in {"REQUEST", "WAIT"}) /\ pc' \notin {"REQUEST", "WAIT"} =>
            (e' \notin TransientErrors)]_vars

C8_Witness ==
    /\ Returned /\ failures = MaxCount + 1 /\ Len(returned) = 1

\* C9: the positions of an invocation follow the state machine, and an
\* invocation starts with nothing left from the one before.
Transitions ==
    { <<"IDLE", "CHECK_CACHE">>, <<"DONE", "CHECK_CACHE">>,
      <<"ERROR", "CHECK_CACHE">>,
      <<"CHECK_CACHE", "DONE">>, <<"CHECK_CACHE", "REQUEST">>,
      <<"REQUEST", "DONE">>, <<"REQUEST", "WAIT">>, <<"REQUEST", "ERROR">>,
      <<"WAIT", "REQUEST">> }

C9_StateMachine ==
    /\ [][pc' # pc /\ entry' = "get_model_response" =>
            <<pc, pc'>> \in Transitions]_vars
    /\ [][pc = "CHECK_CACHE" /\ pc' = "DONE" => messages' = messages]_vars
    /\ [][ViaResponse /\ pc = "REQUEST" /\ pc' = "DONE" =>
            /\ Len(messages') = Len(messages) + 1
            /\ Last(messages').role = "assistant"]_vars
    /\ [][pc = "REQUEST" /\ pc' = "WAIT" => (e' \in TransientErrors)]_vars
    /\ [][pc = "REQUEST" /\ pc' = "ERROR" => (e' \in NonTransientErrors)]_vars
    /\ [][pc # "CHECK_CACHE" /\ pc' = "CHECK_CACHE" =>
            /\ messages' = messages
            /\ n_samples' = 0 /\ e' = "none" /\ returned' = << >>
            /\ lastRequest' = << >>
            /\ failures' = 0 /\ sleeps' = 0 /\ requests' = 0]_vars

C9_Witness ==
    /\ pc = "CHECK_CACHE" /\ lastOp = "get_model_response"
    /\ Len(messages) = 1

\* C10: every request carries the model, the whole conversation as it stands
\* (the one the invocation started with), the temperature and n = 1; an
\* invocation that went to the provider returns one of its samples.
C10_RequestCarriesConversation ==
    /\ [][ViaResponse /\ pc = "REQUEST" /\ pc' # pc =>
            /\ lastRequest' = <<[model |-> model, messages |-> messages,
                                 temperature |-> temperature, n |-> 1]>>
            /\ lastRequest'[1].messages = msgsAtStart]_vars
    /\ [](Returned /\ ~CacheHit =>
            /\ Len(returned) = 1
            /\ returned[1] \in Samples
            /\ returned[1] = Last(messages).content)

C10_Witness ==
    /\ pc = "WAIT" /\ lastRequest # << >>
    /\ Len(lastRequest[1].messages) = MaxMsgs - 1
    /\ lastRequest[1].temperature = 3

\* get_completion, invoked by the caller, has returned and the caller has done
\* nothing since
CompletionReturned == pc = "DONE" /\ lastOp = "get_completion"

\* C11 as stated: get_completion asked for more than one sample returns the
\* samples in provider order and the first of them is appended to the
\* conversation.
C11_FirstOfManyAppended ==
    CompletionReturned /\ lastRequest[1].n > 1 =>
        /\ returned = lastResponse
        /\ messages = Append(msgsAtStart, Message("assistant", returned[1][1]))

\* C11 amended: get_completion asked for more than one sample returns all the
\* samples, as many as requested, in provider order, and leaves the
\* conversation as it was.
C11_ManySamplesReturnedInOrder ==
    CompletionReturned /\ lastRequest[1].n > 1 =>
        /\ returned = lastResponse
        /\ Len(returned[1]) = lastRequest[1].n
        /\ \A i \in 1..Len(returned[1]) : returned[1][i] = lastResponse[1][i]
        /\ messages = msgsAtStart

C11_Witness ==
    /\ CompletionReturned
    /\ lastRequest[1].n = MaxSamples
    /\ returned[1][1] = <<"reply B">>
    /\ returned[1][MaxSamples] = <<"reply A">>
    /\ failures = 1

\* the template keys the holes do not have
MissingKeys == TemplateKeys \ DOMAIN holes

\* nothing has been appended and the provider has not been asked
NothingDone ==
    /\ messages = messagesArg
    /\ pc = "IDLE" /\ entry = "none"
    /\ requests = 0 /\ lastRequest = << >> /\ lastResponse = << >>

\* C12: with holes that lack a template key the constructor fails (with
\* KeyError when the validators pass), the conversation is the messages
\* argument and no request is made.
C12_MissingHoleFailsConstruction ==
    MissingKeys # {} =>
        /\ constructed \in {"KeyError", "ValueError"}
        /\ temperature \in 0..10 /\ model \in {"gpt-4", "gpt-4-32k", "gpt-3.5-turbo-16k"}
               => constructed = "KeyError"
        /\ NothingDone

C12_Witness ==
    /\ MissingKeys = {"hints"}
    /\ constructed = "KeyError"
    /\ messages = <<Message("assistant", <<"earlier reply">>)>>

\* C13: the constructor accepts the temperatures 0..10 (tenths) and no other:
\* outside them it fails with nothing done; inside them, with a supported
\* model and all the holes, it succeeds.
C13_TemperatureRange ==
    /\ constructed = "ok" => temperature >= 0 /\ temperature <= 10
    /\ temperature < 0 \/ temperature > 10 =>
           constructed = "ValueError" /\ NothingDone
    /\ /\ temperature >= 0 /\ temperature <= 10
       /\ model \in {"gpt-4", "gpt-4-32k", "gpt-3.5-turbo-16k"}
       /\ MissingKeys = {}
       => constructed = "ok"

C13_Witness ==
    /\ temperature = 11
    /\ constructed = "ValueError"
    /\ model = "gpt-3.5-turbo-16k" /\ MissingKeys = {}
    /\ messages = <<Message("assistant", <<"earlier reply">>)>>

\* the task template with the values of h in the place of its fields
ExpectedTask(h) ==
    <<"=== Task === === Source code ===">> \o h["source_code"]
    \o <<"=== Tree-sitter representation (source code) ===">> \o h["source_tree"]
    \o <<"=== Tree-sitter representation (target code) ===">> \o h["target_tree"]
    \o <<"=== Diff ===">> \o h["diff"]
    \o <<"=== Additional requirements ===">> \o h["hints"]
    \o <<"=== Please improve my rule ===">>

\* the message the constructor appended
FirstMessage == messages[Len(messagesArg) + 1]

\* C14: the content of the first message is the explanation, the example
\* corpus and the task template with each field replaced by its value, in
\* this order, each part joined to the next by a newline.
C14_PromptIsExplanationExamplesTask ==
    constructed = "ok" =>
        FirstMessage.content =
            <<"explanation">> \o <<"\n">> \o examples \o <<"\n">>
            \o ExpectedTask(holes)

C14_Witness ==
    /\ constructed = "ok"
    /\ examples # << >>
    /\ "unused" \in DOMAIN holes
    /\ messagesArg # << >>

\* the concatenation of a sequence of strings
RECURSIVE Concatenation(_)
Concatenation(strings) ==
    IF strings = << >> THEN << >>
    ELSE Head(strings) \o Concatenation(Tail(strings))

NotHash(line) == line = << >> \/ Head(line) # "#"

NamedRules(file) == file.name # << >> /\ Last(file.name) = "rules.toml"

ExpectedBlock(root, file) ==
    <<"<file_name_start> ">> \o root \o <<"/">> \o file.name
    \o <<" <file_name_end>\n", "<fence>toml ">>
    \o Concatenation([i \in 1..Len(SelectSeq(file.lines, NotHash)) |->
           IF i = 1 THEN SelectSeq(file.lines, NotHash)[i]
           ELSE <<"\n">> \o SelectSeq(file.lines, NotHash)[i]])
    \o <<"<fence>\n">>

ExpectedCorpus(walked) ==
    Concatenation([d \in 1..Len(walked) |->
        Concatenation([f \in 1..Len(walked[d].files) |->
            IF NamedRules(walked[d].files[f])
            THEN ExpectedBlock(walked[d].root, walked[d].files[f])
            ELSE << >>])])

\* C15: the example corpus is, in traversal order, one block for each file
\* whose name ends with rules.toml and nothing for any other file; a block is
\* the path of the file in its tags and then the lines of the file that do
\* not start with #, in their order.
C15_CorpusOfRulesFiles ==
    constructed # "ValueError" => examples = ExpectedCorpus(filesystem)

C15_Witness ==
    /\ constructed = "ok"
    /\ filesystem = JavaTree
    /\ Len(examples) > 10

\* C16: every sleep of the retry loop lasts 10, however many errors came
\* before, and (counted up to MaxCount) one sleep lies between each transient
\* error and the next request.
C16_FixedSleepBetweenAttempts ==
    /\ [][pc = "WAIT" /\ pc' # pc =>
            /\ lastSleep' = 10
            /\ pc' = "REQUEST"
            /\ sleeps' # sleeps \/ sleeps > MaxCount]_vars
    /\ [](lastSleep \in {0, 10})
    /\ [](sleeps > 0 => lastSleep = 10)
    /\ [](pc = "REQUEST" /\ failures <= MaxCount => sleeps = failures)
    /\ [](pc = "WAIT" /\ failures <= MaxCount => sleeps = failures - 1)

C16_Witness ==
    /\ pc = "REQUEST"
    /\ failures = MaxCount /\ sleeps = MaxCount
    /\ lastSleep = 10

\* C17: no step changes temperature, model or holes, and every request holds
\* the temperature and the model of the object.
C17_ConfigurationFixed ==
    /\ [][temperature' = temperature /\ model' = model /\ holes' = holes]_vars
    /\ [](lastRequest # << >> =>
            /\ lastRequest[1].model = model
            /\ lastRequest[1].temperature = temperature)

C17_Witness ==
    /\ pc = "ERROR" /\ failures = 1
    /\ lastRequest # << >>
    /\ temperature = 10 /\ model = "gpt-3.5-turbo-16k"
    /\ Len(messages) = MaxMsgs - 1

\* C18: while an invocation is in its retry loop the conversation is the one
\* it started with, a retried request is the request of the attempt before,
\* and a running invocation appends only in the step of the success.
C18_RetryLoopKeepsConversation ==
    /\ [](Running => messages = msgsAtStart)
    /\ [][pc = "REQUEST" /\ requests > 0 /\ pc' # pc =>
            lastRequest' = lastRequest]_vars
    /\ [][Running /\ messages' # messages =>
            /\ pc = "REQUEST" /\ pc' = "DONE"
            /\ e' = "none" /\ lastResponse' # << >>
            /\ messages' = Append(messages, Message("assistant", returned'[1]))]_vars

C18_Witness ==
    /\ ViaResponse /\ pc = "WAIT"
    /\ failures = MaxCount /\ requests = MaxCount
    /\ Len(msgsAtStart) = MaxMsgs - 1
    /\ lastRequest[1].messages = msgsAtStart

\* C19: when get_model_response has returned v the last message is an
\* assistant message holding v; an invocation entered right after returns v
\* again with no request and no append; and an invocation of
\* get_model_response appends only after a user message.
C19_ReturnedIsLastAndRepeats ==
    /\ [](Returned => Last(messages) = Message("assistant", returned[1]))
    /\ [][pc = "CHECK_CACHE" /\ prevReturned # << >> =>
            /\ pc' = "DONE"
            /\ returned' = prevReturned
            /\ messages' = messages
            /\ requests' = 0 /\ lastRequest' = << >>]_vars
    /\ [][ViaResponse /\ Running /\ messages' # messages =>
            /\ Last(messages).role = "user"
            /\ Len(messages') = Len(messages) + 1
            /\ Last(messages').role = "assistant"]_vars

C19_Witness ==
    /\ Returned
    /\ prevReturned = << <<"reply B">> >>
    /\ returned = prevReturned
    /\ requests = 0
    /\ Len(messages) = 2

\* C20: until the caller's first operation ends, the conversation of a
\* constructed object is the messages argument followed by one user message
\* holding the prompt (alone when the argument is empty); the first
\* invocation of get_model_response goes to the provider.
C20_FreshSessionAsksProvider ==
    /\ [](constructed = "ok" /\ lastOp = "construct" =>
            /\ messages =
                 Append(messagesArg,
                        Message("user",
                                <<"explanation", "\n">> \o examples \o <<"\n">>
                                \o ExpectedTask(holes)))
            /\ Last(messages).role = "user"
            /\ messagesArg = << >> => Len(messages) = 1)
    /\ [][pc = "CHECK_CACHE" /\ lastOp = "construct" =>
            pc' = "REQUEST" /\ returned' = << >>]_vars

C20_Witness ==
    /\ ViaResponse /\ pc = "REQUEST" /\ lastOp = "construct"
    /\ messagesArg = <<Message("assistant", <<"earlier reply">>)>>
    /\ Len(messages) = 2

====
